---- MODULE Spec2Model ----
(***************************************************************************)
(* Model of below's `dump` command line (resctl/below/src/dump/command.rs): *)
(* the make_option! registries (string token -> enum tag, via FromStr),     *)
(* the GeneralOpt / DumpCommand argument structures, and the resolution of  *)
(* a parsed command into the list of fields to display.                     *)
(*                                                                         *)
(* Strings are TLA+ strings; a character is a string of length one.        *)
(***************************************************************************)
EXTENDS Integers, Sequences, FiniteSets, TLC

VARIABLES
    call,     \* the last FromStr::from_str invocation: [name, opt, res], or None
    pc,       \* "lookup" / "args" while input is consumed, then "built" or "error"
    cmd,      \* the subcommand: "System", "Process" or "Cgroup"
    fields,   \* DumpCommand::*::fields, None or the parsed tags in input order
    select,   \* DumpCommand::{Process,Cgroup}::select, None or a tag
    opts,     \* GeneralOpt
    err,      \* the error that ended the invocation, or None
    spec      \* the command specification handed on, or None

vars == <<call, pc, cmd, fields, select, opts, err, spec>>

\* Option<T>: None, or Some(x) whose value is Unwrap(o)
None == <<>>
Some(x) == <<x>>
Unwrap(o) == o[1]

----------------------------------------------------------------------------
(* Bounds of the model.                                                    *)

\* tokens up to this length are tried in every upper/lower-case spelling
MaxFullCaseLen == 3
\* at most this many arguments follow the subcommand (`-b <begin>` apart)
MaxArgs == 4

----------------------------------------------------------------------------
(* Characters and str::to_lowercase.                                       *)

LowerAlphabet == "abcdefghijklmnopqrstuvwxyz"
UpperAlphabet == "ABCDEFGHIJKLMNOPQRSTUVWXYZ"

Ch(s, i) == SubSeq(s, i, i)

Min(S) == CHOOSE x \in S : \A y \in S : x <= y

char_to_lowercase(c) ==
    IF \E i \in 1..Len(UpperAlphabet) : Ch(UpperAlphabet, i) = c
    THEN Ch(LowerAlphabet, CHOOSE i \in 1..Len(UpperAlphabet) : Ch(UpperAlphabet, i) = c)
    ELSE c

char_to_uppercase(c) ==
    IF \E i \in 1..Len(LowerAlphabet) : Ch(LowerAlphabet, i) = c
    THEN Ch(UpperAlphabet, CHOOSE i \in 1..Len(LowerAlphabet) : Ch(LowerAlphabet, i) = c)
    ELSE c

RECURSIVE LowerFrom(_, _)
LowerFrom(s, i) ==
    IF i > Len(s) THEN "" ELSE char_to_lowercase(Ch(s, i)) \o LowerFrom(s, i + 1)

RECURSIVE UpperFrom(_, _)
UpperFrom(s, i) ==
    IF i > Len(s) THEN "" ELSE char_to_uppercase(Ch(s, i)) \o UpperFrom(s, i + 1)

to_lowercase(s) == LowerFrom(s, 1)

to_uppercase(s) == UpperFrom(s, 1)

----------------------------------------------------------------------------
(* make_option!: the registries, each a list of <<$str_field, $enum_field>>. *)

SysField == <<
    <<"timestamp", "Timestamp">>,
    <<"datetime", "Datetime">>,
    <<"cpu", "Cpu">>,
    <<"mem", "Mem">>,
    <<"io", "Io">>,
    <<"hostname", "Hostname">>,
    <<"cpu_usage", "CpuUsagePct">>,
    <<"cpu_user", "CpuUserPct">>,
    <<"cpu_system", "CpuSystemPct">>,
    <<"mem_total", "MemTotal">>,
    <<"mem_free", "MemFree">>,
    <<"mem_anon", "MemAnon">>,
    <<"mem_file", "MemFile">>,
    <<"huge_page_total", "HpTotal">>,
    <<"huge_page_free", "HpFree">>,
    <<"io_read", "IoRead">>,
    <<"io_write", "IoWrite">> >>

ProcField == <<
    <<"timestamp", "Timestamp">>,
    <<"datetime", "Datetime">>,
    <<"io", "Io">>,
    <<"mem", "Mem">>,
    <<"cpu", "Cpu">>,
    <<"pid", "Pid">>,
    <<"ppid", "Ppid">>,
    <<"comm", "Comm">>,
    <<"state", "State">>,
    <<"uptime", "Uptime">>,
    <<"cgroup", "Cgroup">>,
    <<"cpu_user", "CpuUserPct">>,
    <<"cpu_sys", "CpuSysPct">>,
    <<"cpu_threads", "CpuNumThreads">>,
    <<"cpu_total", "CpuTotalPct">>,
    <<"mem_rss", "MemRssBytes">>,
    <<"mem_minorfaults", "MemMinor">>,
    <<"mem_majorfaults", "MemMajor">>,
    <<"io_read", "IoRead">>,
    <<"io_write", "IoWrite">>,
    <<"io_total", "IoTotal">> >>

CgroupField == <<
    <<"timestamp", "Timestamp">>,
    <<"datetime", "Datetime">>,
    <<"cpu", "Cpu">>,
    <<"mem", "Mem">>,
    <<"io", "Io">>,
    <<"pressure", "Pressure">>,
    <<"name", "Name">>,
    <<"full_path", "FullPath">>,
    <<"cpu_usage", "CpuUsage">>,
    <<"cpu_user", "CpuUser">>,
    <<"cpu_system", "CpuSystem">>,
    <<"cpu_nr_periods", "CpuNrPeriods">>,
    <<"cpu_nr_throttled", "CpuNrThrottled">>,
    <<"cpu_throttled", "CpuThrottled">>,
    <<"mem_total", "MemTotal">>,
    <<"mem_swap", "MemSwap">>,
    <<"mem_anon", "MemAnon">>,
    <<"mem_file", "MemFile">>,
    <<"mem_kernel", "MemKernel">>,
    <<"mem_slab", "MemSlab">>,
    <<"mem_sock", "MemSock">>,
    <<"mem_shmem", "MemShem">>,
    <<"mem_file_mapped", "MemFileMapped">>,
    <<"mem_file_dirty", "MemFileDirty">>,
    <<"mem_file_writeback", "MemFileWriteBack">>,
    <<"mem_anon_thp", "MemAnonThp">>,
    <<"mem_inactive_anon", "MemInactiveAnon">>,
    <<"mem_active_anon", "MemActiveAnon">>,
    <<"mem_inactive_file", "MemInactiveFile">>,
    <<"mem_active_file", "MemActiveFile">>,
    <<"mem_unevictable", "MemUnevictable">>,
    <<"mem_slab_reclaimable", "MemSlabReclaimable">>,
    <<"mem_slab_unreclaimable", "MemSlabUnreclaimable">>,
    <<"mem_pgfault", "Pgfault">>,
    <<"mem_pgmajfault", "MemPgmajfault">>,
    <<"mem_workingset_refault", "MemWorkingsetRefault">>,
    <<"mem_workingset_activate", "MemWorkingsetActivate">>,
    <<"mem_workingset_nodereclaim", "MemWorkingsetNodereclaim">>,
    <<"mem_pgrefill", "MemPgrefill">>,
    <<"mem_pgscan", "MemPgscan">>,
    <<"mem_pgsteal", "MemPgsteal">>,
    <<"mem_pgactivate", "MemPgactivate">>,
    <<"mem_pgdeactivate", "MemPgdeactivate">>,
    <<"mem_pglazyfree", "MemPglazyfree">>,
    <<"mem_pglazyfreed", "MemPglazyfreed">>,
    <<"mem_thp_fault_alloc", "MemTHPFaultAlloc">>,
    <<"mem_thp_collapse_alloc", "MemTHPCollapseAlloc">>,
    <<"io_read", "IoRead">>,
    <<"io_write", "IoWrite">>,
    <<"io_rios", "IoRiops">>,
    <<"io_wios", "IoWiops">>,
    <<"io_dbps", "IoDbps">>,
    <<"io_diops", "IoDiops">>,
    <<"io_total", "IoTotal">>,
    <<"pressure_cpu_some", "CpuSome">>,
    <<"pressure_io_some", "IoSome">>,
    <<"pressure_io_full", "IoFull">>,
    <<"pressure_mem_full", "MemFull">>,
    <<"pressure_mem_some", "MemSome">> >>

OutputFormat == <<
    <<"raw", "Raw">>,
    <<"csv", "Csv">>,
    <<"json", "Json">>,
    <<"kv", "KeyVal">> >>

\* the enums make_option! is invoked for
EnumNames == {"SysField", "ProcField", "CgroupField", "OutputFormat"}

\* the entries make_option! is invoked with for an enum
MakeOption(name) ==
    CASE name = "SysField" -> SysField
      [] name = "ProcField" -> ProcField
      [] name = "CgroupField" -> CgroupField
      [] name = "OutputFormat" -> OutputFormat

\* a registry whose second entry was pasted from the first and its string left unedited
Registry_StaleString(name) ==
    LET T == MakeOption(name)
    IN  [i \in 1..Len(T) |-> IF i = 2 THEN <<T[1][1], T[2][2]>> ELSE T[i]]

\* SysField and ProcField given CgroupField's "pressure" entry as well
Registry_PressureEverywhere(name) ==
    LET T == MakeOption(name)
    IN  IF name \in {"SysField", "ProcField"}
        THEN Append(T, <<"pressure", "Pressure">>)
        ELSE T

\* the <<pattern, variant>> arms of an enum's from_str, in order
Registry(name) == MakeOption(name)

\* the $str_field patterns of an enum's from_str
Tokens(name) == {Registry(name)[i][1] : i \in 1..Len(Registry(name))}

\* pub enum $name { $($enum_field,)* }: a tag is <<enum, variant>>
Variants(name) == {<<name, Registry(name)[i][2]>> : i \in 1..Len(Registry(name))}

Ok(v) == <<"Ok", v>>
Err(msg) == <<"Err", msg>>
IsOk(r) == r[1] = "Ok"
IsErr(r) == r[1] = "Err"

\* from_str matching the argument as given, without to_lowercase
from_str_exact(name, opt) ==
    LET T == Registry(name)
        arms == {i \in 1..Len(T) : T[i][1] = opt}
    IN  IF arms # {}
        THEN Ok(<<name, T[Min(arms)][2]>>)
        ELSE Err("Fail to parse " \o opt)

RECURSIVE TrimStart(_)
TrimStart(s) == IF Len(s) > 0 /\ Ch(s, 1) = " " THEN TrimStart(SubSeq(s, 2, Len(s))) ELSE s

RECURSIVE TrimEnd(_)
TrimEnd(s) ==
    IF Len(s) > 0 /\ Ch(s, Len(s)) = " " THEN TrimEnd(SubSeq(s, 1, Len(s) - 1)) ELSE s

\* from_str matching opt.trim().to_lowercase()
from_str_trimmed(name, opt) ==
    LET T == Registry(name)
        lowered == to_lowercase(TrimEnd(TrimStart(opt)))
        arms == {i \in 1..Len(T) : T[i][1] = lowered}
    IN  IF arms # {}
        THEN Ok(<<name, T[Min(arms)][2]>>)
        ELSE Err("Fail to parse " \o opt)

\* fn from_str(opt: &str) -> Result<Self>: the first arm whose pattern equals
\* the lowercased argument, else bail!("Fail to parse {}", opt)
from_str(name, opt) ==
    LET T == Registry(name)
        lowered == to_lowercase(opt)
        arms == {i \in 1..Len(T) : T[i][1] = lowered}
    IN  IF arms # {}
        THEN Ok(<<name, T[Min(arms)][2]>>)
        ELSE Err("Fail to parse " \o opt)

\* the subcommands of DumpCommand and the enum each parses its fields with
Domains == {"System", "Process", "Cgroup"}

FieldEnum(d) ==
    CASE d = "System" -> "SysField"
      [] d = "Process" -> "ProcField"
      [] d = "Cgroup" -> "CgroupField"

----------------------------------------------------------------------------
(* The argument strings tried: every registry token, its case variants,    *)
(* its strict prefixes, extensions and whitespace-padded forms, and tokens *)
(* of no registry.                                                         *)

AllTokens == UNION {Tokens(name) : name \in EnumNames}

RECURSIVE Recase(_, _, _)
\* s with the characters at the positions in mask uppercased, the others lowercased
Recase(s, mask, i) ==
    IF i > Len(s) THEN ""
    ELSE (IF i \in mask THEN char_to_uppercase(Ch(s, i)) ELSE char_to_lowercase(Ch(s, i)))
         \o Recase(s, mask, i + 1)

Masks(t) ==
    LET n == Len(t)
    IN  IF n <= MaxFullCaseLen
        THEN SUBSET (1..n)
        ELSE {{}, 1..n, {i \in 1..n : i % 2 = 1}, {i \in 1..n : i % 2 = 0}}
             \cup {{i} : i \in 1..n} \cup {(1..n) \ {i} : i \in 1..n}

CaseVariants(t) == {Recase(t, m, 1) : m \in Masks(t)}

StrictPrefixes(t) == {SubSeq(t, 1, k) : k \in 0..(Len(t) - 1)}

NearMisses(t) ==
    StrictPrefixes(t)
    \cup {t \o "x", t \o "_", t \o "s", " " \o t, t \o " ", " " \o t \o " ",
          to_uppercase(t) \o " ", to_uppercase(t) \o "X"}

Strangers == {"", "bogus", "all", "*", "cpu_*", "CPU-USAGE", "c p u"}

\* the field names each subcommand's help text lists under "Available fields"
AvailableFields(d) ==
    CASE d = "System" ->
           {"timestamp", "datetime", "hostname",
            "cpu_usage", "cpu_user", "cpu_system",
            "mem_total", "mem_free", "mem_anon", "mem_file",
            "huge_page_total", "huge_page_free",
            "io_read", "io_write"}
      [] d = "Process" ->
           {"timestamp", "datetime", "pid", "ppid", "comm", "state", "uptime", "cgroup",
            "cpu_user", "cpu_sys", "cpu_threads", "cpu_total",
            "mem_rss", "mem_minorfaults", "mem_majorfaults",
            "io_read", "io_write", "io_total"}
      [] d = "Cgroup" ->
           {"timestamp", "datetime", "name", "full_path",
            "cpu_usage", "cpu_user", "cpu_system", "cpu_nr_periods", "cpu_nr_throttled",
            "mem_total", "mem_anon", "mem_file", "mem_kernel", "mem_slab", "mem_sock",
            "mem_shem", "mem_file_mapped", "mem_file_dirty", "mem_file_writeback",
            "mem_anon_thp", "mem_inactive_anon", "mem_active_anon", "mem_inactive_file",
            "mem_active_file", "mem_unevictable", "mem_slab_reclaimable",
            "mem_slab_unreclaimable",
            "io_read", "io_write", "io_wios", "io_rios", "io_dbps", "io_diops", "io_total",
            "pressure_cpu_some", "pressure_io_some", "pressure_io_full",
            "pressure_mem_some", "pressure_mem_full"}

\* the values given to -f and -s in each subcommand's "Example Commands"
ExampleTokens(d) ==
    CASE d = "System" -> {"datetime", "io", "hostname"}
      [] d = "Process" -> {"comm", "cpu", "io_total", "cpu_total"}
      [] d = "Cgroup" -> {"name", "cpu", "comm", "cpu_usage"}

Inputs ==
    UNION {CaseVariants(t) : t \in AllTokens}
    \cup UNION {NearMisses(t) : t \in AllTokens}
    \cup UNION {AvailableFields(d) \cup ExampleTokens(d) : d \in Domains}
    \cup Strangers

----------------------------------------------------------------------------
(* A registry lookup on its own, `opt.parse::<$name>()`, for the enums a   *)
(* subcommand parses its arguments with: one lookup per behaviour.         *)

Parse(name, opt) ==
    /\ pc = "lookup"
    /\ call = None
    /\ name \in {FieldEnum(cmd), "OutputFormat"}
    /\ call' = Some([name |-> name, opt |-> opt, res |-> from_str(name, opt)])
    /\ UNCHANGED <<pc, cmd, fields, select, opts, err, spec>>

\* #[derive(Default)] GeneralOpt, with `top` at its default_value = "0".
\* `begin` is required and always given; `end`, `repeat_title` and `output`
\* are carried through unread by anything modelled here and are left out.
GeneralOptDefault ==
    [default |-> FALSE, everything |-> FALSE, detail |-> FALSE,
     filter |-> None, sort |-> FALSE, rsort |-> FALSE, top |-> 0,
     output_format |-> None]

InitLookup ==
    /\ call = None
    /\ pc = "lookup"
    /\ cmd \in Domains
    /\ fields = None
    /\ select = None
    /\ opts = GeneralOptDefault
    /\ err = None
    /\ spec = None

NextLookup == \E name \in EnumNames, opt \in Inputs : Parse(name, opt)

SpecLookup == InitLookup /\ [][NextLookup]_vars

----------------------------------------------------------------------------
(* The aggregated fields of each subcommand, as its help text states them: *)
(* the fields a group includes, those it additionally includes under       *)
(* --detail, and the [prefix_*] it additionally includes under --detail.   *)

SystemAggregated == <<
    [group |-> "cpu", base |-> <<"cpu_usage", "cpu_user", "cpu_system">>,
     detail |-> <<>>, glob |-> ""],
    [group |-> "mem", base |-> <<"mem_total", "mem_free">>,
     detail |-> <<"mem_anon", "mem_file", "huge_page_total", "huge_page_free">>, glob |-> ""],
    [group |-> "io", base |-> <<"io_read", "io_write">>,
     detail |-> <<>>, glob |-> ""] >>

\* Process "cpu" given System's three-field base
ProcessAggregated_WideCpu == <<
    [group |-> "cpu", base |-> <<"cpu_total", "cpu_user", "cpu_sys">>,
     detail |-> <<"cpu_threads">>, glob |-> ""],
    [group |-> "mem", base |-> <<"mem_rss">>,
     detail |-> <<"mem_minorfaults", "mem_majorfaults">>, glob |-> ""],
    [group |-> "io", base |-> <<"io_read", "io_write">>,
     detail |-> <<"io_total">>, glob |-> ""] >>

ProcessAggregated == <<
    [group |-> "cpu", base |-> <<"cpu_total">>,
     detail |-> <<"cpu_user", "cpu_sys", "cpu_threads">>, glob |-> ""],
    [group |-> "mem", base |-> <<"mem_rss">>,
     detail |-> <<"mem_minorfaults", "mem_majorfaults">>, glob |-> ""],
    [group |-> "io", base |-> <<"io_read", "io_write">>,
     detail |-> <<"io_total">>, glob |-> ""] >>

CgroupAggregated == <<
    [group |-> "cpu", base |-> <<"cpu_usage">>, detail |-> <<>>, glob |-> "cpu_"],
    [group |-> "mem", base |-> <<"mem_total">>, detail |-> <<>>, glob |-> "mem_"],
    [group |-> "io", base |-> <<"io_read", "io_write">>, detail |-> <<>>, glob |-> "io_"],
    [group |-> "pressure",
     base |-> <<"pressure_cpu_some", "pressure_mem_full", "pressure_io_full">>,
     detail |-> <<>>, glob |-> "pressure_"] >>

Aggregated(d) ==
    CASE d = "System" -> SystemAggregated
      [] d = "Process" -> ProcessAggregated
      [] d = "Cgroup" -> CgroupAggregated

\* "--default will have all of [...]"
DefaultTokens(d) ==
    CASE d = "System" -> <<"cpu", "mem", "io">>
      [] d = "Process" -> <<"pid", "comm", "cpu", "mem", "io">>
      [] d = "Cgroup" -> <<"name", "cpu", "mem", "io", "pressure">>

SeqRange(s) == {s[i] : i \in 1..Len(s)}

StartsWith(s, prefix) == Len(s) >= Len(prefix) /\ SubSeq(s, 1, Len(prefix)) = prefix

\* the registry's tokens that [glob*] stands for, in registry order, less those in excl
GlobTokens(name, glob, excl) ==
    LET T == Registry(name)
        Matches(e) == StartsWith(e[1], glob) /\ e[1] \notin SeqRange(excl)
        hit == SelectSeq(T, Matches)
    IN  IF glob = "" THEN <<>> ELSE [k \in 1..Len(hit) |-> hit[k][1]]

\* the tags a list of tokens of an enum names
TagsOf(name, toks) == [k \in 1..Len(toks) |-> from_str(name, toks[k])[2]]

\* expand(domain, group_name, detail): the group's fields, more of them under detail
expand(d, g, detail) ==
    LET A == Aggregated(d)
        known == {i \in 1..Len(A) : A[i].group = g}
        e == A[Min(known)]
        more == e.detail \o GlobTokens(FieldEnum(d), e.glob, e.base \o e.detail)
    IN  IF known = {}
        THEN Err([kind |-> "UnknownGroup", token |-> g, domain |-> d])
        ELSE Ok(TagsOf(FieldEnum(d), IF detail THEN e.base \o more ELSE e.base))

\* the token a tag was declared with
TokenOf(tag) ==
    LET T == Registry(tag[1])
    IN  T[Min({i \in 1..Len(T) : T[i][2] = tag[2]})][1]

\* what one requested field contributes: its group's expansion, else itself
Contribution(d, tag, detail) ==
    LET x == expand(d, TokenOf(tag), detail)
    IN  IF IsOk(x) THEN x[2] ELSE <<tag>>

RECURSIVE Walk(_, _, _)
\* the requested fields' contributions, concatenated in input order
Walk(d, tags, detail) ==
    IF tags = <<>> THEN <<>>
    ELSE Contribution(d, Head(tags), detail) \o Walk(d, Tail(tags), detail)

\* every tag of the domain's enum, in declaration order
AllFields(d) ==
    LET T == Registry(FieldEnum(d))
    IN  [i \in 1..Len(T) |-> <<FieldEnum(d), T[i][2]>>]

\* resolve_fields looking at --default before --everything
resolve_fields_DefaultFirst(d, tags, o) ==
    IF o.default THEN Walk(d, TagsOf(FieldEnum(d), DefaultTokens(d)), o.detail)
    ELSE IF o.everything THEN AllFields(d)
    ELSE Walk(d, tags, o.detail)

\* resolve_fields: --everything overrides --default overrides --fields
resolve_fields(d, tags, o) ==
    IF o.everything THEN AllFields(d)
    ELSE IF o.default THEN Walk(d, TagsOf(FieldEnum(d), DefaultTokens(d)), o.detail)
    ELSE Walk(d, tags, o.detail)

RowScoped(o) == o.filter # None \/ o.sort \/ o.rsort \/ o.top > 0

\* validate letting --sort win over --rsort instead of refusing both
validate_SortWins(d, o, sel) ==
    IF d = "System" /\ RowScoped(o)
    THEN Err([kind |-> "NotApplicableForDomain", domain |-> d])
    ELSE IF d # "System" /\ RowScoped(o) /\ sel = None
    THEN Err([kind |-> "SelectFieldRequired", domain |-> d])
    ELSE Ok(IF o.sort THEN "Ascending" ELSE IF o.rsort THEN "Descending" ELSE "None")

\* validate without the System rule for --top
validate_TopUnchecked(d, o, sel) ==
    IF o.sort /\ o.rsort
    THEN Err([kind |-> "ConflictingSortDirection", domain |-> d])
    ELSE IF d = "System" /\ (o.filter # None \/ o.sort \/ o.rsort)
    THEN Err([kind |-> "NotApplicableForDomain", domain |-> d])
    ELSE IF d # "System" /\ RowScoped(o) /\ sel = None
    THEN Err([kind |-> "SelectFieldRequired", domain |-> d])
    ELSE Ok(IF o.sort THEN "Ascending" ELSE IF o.rsort THEN "Descending" ELSE "None")

\* validate(raw_options): the sort direction, or the first rule broken
validate(d, o, sel) ==
    IF o.sort /\ o.rsort
    THEN Err([kind |-> "ConflictingSortDirection", domain |-> d])
    ELSE IF d = "System" /\ RowScoped(o)
    THEN Err([kind |-> "NotApplicableForDomain", domain |-> d])
    ELSE IF d # "System" /\ RowScoped(o) /\ sel = None
    THEN Err([kind |-> "SelectFieldRequired", domain |-> d])
    ELSE Ok(IF o.sort THEN "Ascending" ELSE IF o.rsort THEN "Descending" ELSE "None")

\* the command specification, or the error that stops the command
assemble(d, fs, o, sel) ==
    LET v == validate(d, o, sel)
    IN  IF IsErr(v) THEN v
        ELSE IF sel # None /\ Unwrap(sel)[1] # FieldEnum(d)
        THEN Err([kind |-> "FieldDomainMismatch", domain |-> d])
        ELSE Ok([domain |-> d,
                 selection |-> resolve_fields(d, IF fs = None THEN <<>> ELSE Unwrap(fs), o),
                 select |-> sel,
                 sort_direction |-> v[2],
                 top |-> o.top,
                 filter |-> o.filter,
                 output_format |-> IF o.output_format = None
                                   THEN <<"OutputFormat", "Raw">>
                                   ELSE Unwrap(o.output_format),
                 detail |-> o.detail])

----------------------------------------------------------------------------
(* One `below dump <subcommand> ...` invocation: the arguments are parsed  *)
(* into DumpCommand one at a time, then the command is built.              *)

\* Cgroup's `select` left declared with the enum of the variant it was copied from
SelectEnum_Copied(d) == "ProcField"

\* the enum `select` is declared with in a subcommand that has one
SelectEnum(d) ==
    CASE d = "Process" -> "ProcField"
      [] d = "Cgroup" -> "CgroupField"

\* the values tried for -f, -s, -O, --top and -F
FieldInputs == {"comm", "cpu", "io_total", "mem", "pressure", "hostname", "CPU", "bogus"}
SelectInputs == {"cpu_usage", "comm", "CPU_TOTAL", "cpu usage"}
FormatInputs == {"csv", "Json", "xml"}
TopInputs == {5}
FilterInputs == {"below*"}

Flags == {"default", "everything", "detail", "sort", "rsort"}

\* how many arguments have been consumed
ArgCount ==
    (IF fields = None THEN 0 ELSE Len(Unwrap(fields)))
    + (IF select = None THEN 0 ELSE 1)
    + (IF opts.output_format = None THEN 0 ELSE 1)
    + Cardinality({f \in Flags : opts[f]})
    + (IF opts.top = 0 THEN 0 ELSE 1)
    + (IF opts.filter = None THEN 0 ELSE 1)

InvalidValue(arg, r) == [kind |-> "ValueValidation", arg |-> arg, msg |-> r[2]]

\* the argument parser fails: there is an error and no DumpCommand
Rejected(e) ==
    /\ pc' = "error"
    /\ err' = Some(e)
    /\ fields' = None
    /\ select' = None
    /\ opts' = GeneralOptDefault
    /\ UNCHANGED <<call, cmd, spec>>

\* -f <opt>: one more value of `fields`
ArgFields(opt) ==
    LET r == from_str(FieldEnum(cmd), opt)
        sofar == IF fields = None THEN <<>> ELSE Unwrap(fields)
    IN  /\ pc = "args"
        /\ ArgCount < MaxArgs
        /\ IF IsOk(r)
           THEN /\ fields' = Some(Append(sofar, r[2]))
                /\ UNCHANGED <<call, pc, cmd, select, opts, err, spec>>
           ELSE Rejected(InvalidValue("fields", r))

\* -s <opt>: System takes no such argument
ArgSelect(opt) ==
    /\ pc = "args"
    /\ ArgCount < MaxArgs
    /\ select = None
    /\ IF cmd = "System"
       THEN Rejected([kind |-> "UnknownArgument", arg |-> "select", msg |-> opt])
       ELSE LET r == from_str(SelectEnum(cmd), opt)
            IN  IF IsOk(r)
                THEN /\ select' = Some(r[2])
                     /\ UNCHANGED <<call, pc, cmd, fields, opts, err, spec>>
                ELSE Rejected(InvalidValue("select", r))

\* -O <opt>
ArgOutputFormat(opt) ==
    LET r == from_str("OutputFormat", opt)
    IN  /\ pc = "args"
        /\ ArgCount < MaxArgs
        /\ opts.output_format = None
        /\ IF IsOk(r)
           THEN /\ opts' = [opts EXCEPT !.output_format = Some(r[2])]
                /\ UNCHANGED <<call, pc, cmd, fields, select, err, spec>>
           ELSE Rejected(InvalidValue("output_format", r))

\* --default, --everything, --detail, --sort, --rsort
ArgFlag(f) ==
    /\ pc = "args"
    /\ ArgCount < MaxArgs
    /\ ~opts[f]
    /\ opts' = [opts EXCEPT ![f] = TRUE]
    /\ UNCHANGED <<call, pc, cmd, fields, select, err, spec>>

\* --top <n>
ArgTop(n) ==
    /\ pc = "args"
    /\ ArgCount < MaxArgs
    /\ opts.top = 0
    /\ opts' = [opts EXCEPT !.top = n]
    /\ UNCHANGED <<call, pc, cmd, fields, select, err, spec>>

\* -F <regex>
ArgFilter(re) ==
    /\ pc = "args"
    /\ ArgCount < MaxArgs
    /\ opts.filter = None
    /\ opts' = [opts EXCEPT !.filter = Some(re)]
    /\ UNCHANGED <<call, pc, cmd, fields, select, err, spec>>

\* the arguments are exhausted: the command specification is built, or refused
Build ==
    LET a == assemble(cmd, fields, opts, select)
    IN  /\ pc = "args"
        /\ IF IsOk(a)
           THEN /\ pc' = "built"
                /\ spec' = Some(a[2])
                /\ UNCHANGED err
           ELSE /\ pc' = "refused"
                /\ err' = Some(a[2])
                /\ UNCHANGED spec
        /\ UNCHANGED <<call, cmd, fields, select, opts>>

Init ==
    /\ call = None
    /\ pc = "args"
    /\ cmd \in Domains
    /\ fields = None
    /\ select = None
    /\ opts = GeneralOptDefault
    /\ err = None
    /\ spec = None

Next ==
    \/ \E opt \in FieldInputs : ArgFields(opt)
    \/ \E opt \in SelectInputs : ArgSelect(opt)
    \/ \E opt \in FormatInputs : ArgOutputFormat(opt)
    \/ \E f \in Flags : ArgFlag(f)
    \/ \E n \in TopInputs : ArgTop(n)
    \/ \E re \in FilterInputs : ArgFilter(re)
    \/ Build

Spec == Init /\ [][Next]_vars

----------------------------------------------------------------------------
(* Properties.                                                             *)

\* opt spells token t, each letter in either case
IsCaseVariant(opt, t) ==
    /\ Len(opt) = Len(t)
    /\ \A i \in 1..Len(t) : Ch(opt, i) = Ch(t, i) \/ Ch(opt, i) = char_to_uppercase(Ch(t, i))

\* the tag written next to token t in an enum's registry
DeclaredTag(name, t) ==
    LET T == Registry(name)
    IN  <<name, T[CHOOSE i \in 1..Len(T) : T[i][1] = t][2]>>

Mentions(s, sub) == \E i \in 1..(Len(s) - Len(sub) + 1) : SubSeq(s, i, i + Len(sub) - 1) = sub

IsPrefix(p, s) == Len(p) <= Len(s) /\ SubSeq(s, 1, Len(p)) = p

RECURSIVE Flatten(_, _)
\* the sequences ss[k], ss[k+1], ... concatenated
Flatten(ss, k) == IF k > Len(ss) THEN <<>> ELSE ss[k] \o Flatten(ss, k + 1)

GroupTokens == {"cpu", "mem", "io", "pressure"}

\* what one requested field is to contribute: a group its expansion, else itself
PerToken(d, tag, detail) ==
    IF TokenOf(tag) \in GroupTokens THEN expand(d, TokenOf(tag), detail)[2] ELSE <<tag>>

Requested == IF fields = None THEN <<>> ELSE Unwrap(fields)

\* C1: in every domain, and for the output formats, every upper/lower-case
\* spelling of a registry token resolves, and to the tag declared for that
\* token: the same tag as the token itself and as its uppercased form.
C1_CaseInsensitive ==
    \A c \in SeqRange(call) : \A t \in Tokens(c.name) :
        IsCaseVariant(c.opt, t) =>
            /\ c.res = Ok(DeclaredTag(c.name, t))
            /\ from_str(c.name, t) = c.res
            /\ from_str(c.name, to_uppercase(t)) = c.res

C1_Witness ==
    \E c \in SeqRange(call) :
        /\ c.name = "CgroupField"
        /\ c.opt = "CPU_USAGE"
        /\ c.res = Ok(<<"CgroupField", "CpuUsage">>)

\* C2 as claimed: a token whose lowercased form is none of the domain's
\* registry tokens fails to resolve, and the error carries the token as
\* supplied and the name of the domain.
C2_ErrorNamesTokenAndDomain ==
    \A c \in SeqRange(call) :
        (c.name = FieldEnum(cmd) /\ to_lowercase(c.opt) \notin Tokens(c.name)) =>
            /\ IsErr(c.res)
            /\ Mentions(c.res[2], c.opt)
            /\ \E n \in {cmd, to_lowercase(cmd), FieldEnum(cmd)} : Mentions(c.res[2], n)

\* C2 as amended: a token whose lowercased form is none of the registry's
\* tokens fails to resolve, and the error is the message "Fail to parse "
\* followed by the token exactly as supplied, which names no domain.
C2_ErrorNamesToken ==
    \A c \in SeqRange(call) :
        to_lowercase(c.opt) \notin Tokens(c.name) =>
            c.res = Err("Fail to parse " \o c.opt)

C2_Witness ==
    \E c \in SeqRange(call) :
        /\ c.name = "SysField"
        /\ c.opt = "CPU_USAGE "
        /\ c.res = Err("Fail to parse CPU_USAGE ")

\* C3: in each domain's registry no token occurs twice (compared without
\* case), no two tokens resolve to the same tag, every tag of the enum is
\* what some token resolves to, and a successful lookup returns a tag of the
\* enum whose one token is the lowercased argument.
C3_Bijection ==
    LET name == FieldEnum(cmd)
        T == Registry(name)
    IN  /\ call = None =>
            /\ \A i, j \in 1..Len(T) :
                   to_lowercase(T[i][1]) = to_lowercase(T[j][1]) => i = j
            /\ \A t1, t2 \in Tokens(name) :
                   from_str(name, t1) = from_str(name, t2) => t1 = t2
            /\ \A v \in Variants(name) : \E t \in Tokens(name) : from_str(name, t) = Ok(v)
            /\ Cardinality(Tokens(name)) = Cardinality(Variants(name))
        /\ \A c \in SeqRange(call) :
               (c.name = name /\ IsOk(c.res)) =>
                   /\ c.res[2] \in Variants(name)
                   /\ {t \in Tokens(name) : from_str(name, t) = c.res} = {to_lowercase(c.opt)}

C3_Witness ==
    \E c \in SeqRange(call) :
        /\ c.name = "CgroupField"
        /\ c.opt = "mem_shmem"
        /\ c.res = Ok(<<"CgroupField", "MemShem">>)

\* C10: every field name a subcommand's help text lists as available or
\* aggregated, and every value its example commands give to -f or -s, is
\* accepted by that subcommand's registry.
C10_DocumentedNamesResolve ==
    \A c \in SeqRange(call) :
        (/\ c.name = FieldEnum(cmd)
         /\ \/ c.opt \in AvailableFields(cmd) \cup ExampleTokens(cmd)
            \/ \E i \in 1..Len(Aggregated(cmd)) :
                   c.opt \in {Aggregated(cmd)[i].group}
                             \cup SeqRange(Aggregated(cmd)[i].base)
                             \cup SeqRange(Aggregated(cmd)[i].detail))
        => IsOk(c.res)

\* C4: with neither --everything nor --default, the selection is the
\* concatenation, in input order and without deduplication, of what each
\* requested field contributes: a group its expansion at the detail level,
\* any other field itself. Process [comm, cpu, io_total] without --detail
\* gives [Comm, CpuTotalPct, IoTotal]; no fields give an empty selection.
C4_Concatenation ==
    \A s \in SeqRange(spec) :
        (~opts.everything /\ ~opts.default) =>
            /\ s.selection =
                   Flatten([k \in 1..Len(Requested) |->
                               PerToken(cmd, Requested[k], opts.detail)], 1)
            /\ (/\ cmd = "Process"
                /\ ~opts.detail
                /\ Requested = << <<"ProcField", "Comm">>, <<"ProcField", "Cpu">>,
                                  <<"ProcField", "IoTotal">> >>)
               => s.selection = << <<"ProcField", "Comm">>, <<"ProcField", "CpuTotalPct">>,
                                   <<"ProcField", "IoTotal">> >>
            /\ Requested = <<>> => s.selection = <<>>

C4_Witness ==
    /\ pc = "built"
    /\ cmd = "Process"
    /\ ~opts.detail /\ ~opts.everything /\ ~opts.default
    /\ Requested = << <<"ProcField", "Comm">>, <<"ProcField", "Cpu">>,
                      <<"ProcField", "IoTotal">> >>
    /\ Unwrap(spec).selection = << <<"ProcField", "Comm">>, <<"ProcField", "CpuTotalPct">>,
                                   <<"ProcField", "IoTotal">> >>
    /\ Unwrap(spec).output_format = <<"OutputFormat", "Csv">>

\* C5: under --everything the selection holds every tag of the domain exactly
\* once, whatever --fields and --default are; under --default without
\* --everything it is the domain's default list, whatever --fields is.
C5_Precedence ==
    \A s \in SeqRange(spec) :
        /\ opts.everything =>
               /\ SeqRange(s.selection) = Variants(FieldEnum(cmd))
               /\ Len(s.selection) = Cardinality(Variants(FieldEnum(cmd)))
        /\ (~opts.everything /\ opts.default) =>
               s.selection =
                   Flatten([k \in 1..Len(DefaultTokens(cmd)) |->
                               PerToken(cmd, DeclaredTag(FieldEnum(cmd), DefaultTokens(cmd)[k]),
                                        opts.detail)], 1)

C5_Witness ==
    /\ pc = "built"
    /\ opts.everything /\ opts.default
    /\ Requested # <<>>
    /\ Len(Unwrap(spec).selection) = Len(Registry(FieldEnum(cmd)))

====
